---- MODULE Spec2Model ----
(***************************************************************************)
(* Model of src/AfetchData.py: the day-by-day waveform download of the     *)
(* Kavachi monitoring pipeline.  main() walks the day range, skips days    *)
(* that already have an artifact, plans the chunks of a day, fetches each  *)
(* chunk through fetch_with_retries (retry / backoff / lenient fallback),   *)
(* merges and trims the chunks and writes one MiniSEED file per day.       *)
(*                                                                         *)
(* src/DsaveDayplots.py, which plots the daily files and then empties      *)
(* shake_data, is modelled after the assembly.                             *)
(*                                                                         *)
(* Durations are counted in 1/Scale seconds so that the float products     *)
(* backoff * 1.5 of the code stay exact integers.  Instants of the chunk   *)
(* planner are seconds since the first day of the range.                   *)
(***************************************************************************)
EXTENDS Integers, Sequences, FiniteSets, TLC

VARIABLES
    CHUNK_HOURS,   \* configuration: hours per chunk            (line 41)
    MAX_RETRIES,   \* configuration: retries per chunk          (line 43)
    pc,            \* position of main() / fetch_with_retries()
    day,           \* index of the day the loop of main() is at
    mseed,         \* shake_data: state of the daily file of each day
    dayplot,       \* dayplots: whether the PNG of each day exists
    chunks,        \* main(): the (t0, t1) pairs planned for the day
    k,             \* main(): index in chunks of the chunk being fetched
    s_all,         \* main(): identities of the traces collected for the day
    st,            \* stream returned by fetch_with_retries
    attempt,       \* fetch_with_retries: attempt
    backoff,       \* fetch_with_retries: backoff, in 1/Scale s
    wait_sec,      \* fetch_with_retries: wait_sec, in 1/Scale s
    nNormal,       \* history: fetch_chunk_normal calls of this call
    nFallback,     \* history: fallback calls of this call
    nSleeps,       \* history: backoff sleeps of this call
    seen,          \* history: outcomes of the provider requests of this call
    resp,          \* history: the last answer of the provider
    slept,         \* history: time slept since the last provider request
    report,        \* the status line printed for each day
    skippable,     \* history: days that had an artifact when their iteration began
    active,        \* history: days for which main() slept, fetched or wrote
    s_tr,          \* assembly: the traces of s_all, sample by sample
    s_in,          \* history: the traces of s_all in the order they were fetched
    apc,           \* assembly: position in the merge / trim / select steps
    dpc,           \* DsaveDayplots: position of main()
    mseed_files,   \* DsaveDayplots: the days of the files main() collected
    fi,            \* DsaveDayplots: index in mseed_files of the file at hand
    removed        \* history: days whose file DsaveDayplots removed

vars == << CHUNK_HOURS, MAX_RETRIES, pc, day, mseed, dayplot, chunks, k, s_all,
           st, attempt, backoff, wait_sec, nNormal, nFallback, nSleeps,
           seen, resp, slept, report, skippable, active, s_tr, s_in, apc,
           dpc, mseed_files, fi, removed >>

(***************************************************************************)
(* Bounds of the model.                                                    *)
(***************************************************************************)
NumDays == 2           \* days in the range [START_DATE_UTC, END_DATE_UTC)
MaxRetriesRange == 6   \* MAX_RETRIES is drawn from 0..MaxRetriesRange
MainRetries == 1       \* ... and is MainRetries in the runs of main()
MaxAbsHours == 48       \* the planner alone is given -MaxAbsHours..MaxAbsHours
SamplesPerDay == 3      \* 24 h * sampling rate, in the sample-by-sample assembly
MaxTraces == 2          \* traces collected for a day in the assembly

(***************************************************************************)
(* Program constants (seconds).                                            *)
(***************************************************************************)
REQUEST_PAUSE_SECONDS == 5
BACKOFF_INITIAL == 10
BACKOFF_MAX == 600
DefaultChunkHours == 4
HoursPerDay == 24
SecondsPerHour == 3600

Scale == 2 ^ MaxRetriesRange
\* JITTER_MAX = 1.5 s; random.random() * JITTER_MAX lies in [0, JITTER_MAX).
JITTER_MAX == (3 * Scale) \div 2
JitterChoices == {0, JITTER_MAX - 1}

Days == 0 .. (NumDays - 1)
Min(a, b) == IF a <= b THEN a ELSE b

\* The chunk widths that divide the day into a positive number of chunks.
ValidWidths == {1, 2, 3, 4, 6, 8, 12, 24}
\* Values of CHUNK_HOURS in the runs of main: two divisors of 24, and integers
\* that are no valid width (negative, zero, not dividing 24).
ChunkHourChoices == {8, 24, -4, 0, 5}
\* Values of hours_per_chunk given to the planner alone.
PlannerHours == (0 - MaxAbsHours) .. MaxAbsHours

\* What a provider error message holds for the code: whether it matches a
\* rate-limit pattern ("429", "Too Many Requests", "rate limit") and the
\* number of its Retry-After / "retry in N seconds" text (NoHint: none).
NoHint == -1
HintChoices == {0, 700}
Messages == [rate : BOOLEAN, retry : HintChoices \cup {NoHint}]

\* A stream is known here by the identity of its traces: none, traces of the
\* configured NETWORK.STATION.LOCATION.CHANNEL ("cfg"; "cfgr" when their
\* sampling rate is not the one of the "cfg" traces), or traces of another one.
EmptyStream == "empty"
StreamKinds == {EmptyStream, "cfg", "cfgr", "oth"}
len(s) == IF s = EmptyStream THEN 0 ELSE 1

\* Answers of client.get_waveforms / client._download + read.
NoResp == [cls |-> "none"]
OkResps == {[cls |-> "ok", stream |-> s] : s \in StreamKinds}
CorruptResp == [cls |-> "corrupt"]                  \* InternalMSEEDError
ErrorResps == {[cls |-> "error", msg |-> m] : m \in Messages}
NormalResps == OkResps \cup {CorruptResp} \cup ErrorResps
FallbackResps == OkResps \cup {CorruptResp} \cup ErrorResps

(***************************************************************************)
(* Python integer arithmetic: // and % round towards minus infinity.       *)
(***************************************************************************)
PyFloorDiv(a, b) == IF b > 0 THEN a \div b ELSE (-a) \div (-b)
PyMod(a, b) == a - b * PyFloorDiv(a, b)

\* range(start, stop, step) for step # 0, as a sequence.
PyRange(start, stop, step) ==
    LET n == IF step > 0 /\ start < stop
                THEN ((stop - start) + step - 1) \div step
                ELSE IF step < 0 /\ start > stop
                THEN ((start - stop) + (-step) - 1) \div (-step)
                ELSE 0
    IN [i \in 1 .. n |-> start + (i - 1) * step]

(***************************************************************************)
(* chunk_bounds_for_day: the planner.  The result is either an error       *)
(* (the assert fails, or 24 % 0 raises) or the list of (t0, t1) pairs.      *)
(***************************************************************************)
DayStart(d) == d * HoursPerDay * SecondsPerHour

\* chunk_bounds_for_day ending every chunk one hour after its start, whatever
\* the width (t1 = day_start + 3600 * (k + 1)).
chunk_bounds_for_day_OneHour(date_obj, hours_per_chunk) ==
    IF hours_per_chunk = 0
    THEN [err |-> "ZeroDivisionError", bounds |-> << >>]
    ELSE IF PyMod(HoursPerDay, hours_per_chunk) # 0
    THEN [err |-> "AssertionError", bounds |-> << >>]
    ELSE LET ks == PyRange(0, HoursPerDay, hours_per_chunk)
         IN [err |-> "",
             bounds |-> [i \in 1 .. Len(ks) |->
                 << DayStart(date_obj) + SecondsPerHour * ks[i],
                    DayStart(date_obj) + SecondsPerHour * (ks[i] + 1) >>]]

chunk_bounds_for_day(date_obj, hours_per_chunk) ==
    IF hours_per_chunk = 0
    THEN [err |-> "ZeroDivisionError", bounds |-> << >>]
    ELSE IF PyMod(HoursPerDay, hours_per_chunk) # 0
    THEN [err |-> "AssertionError", bounds |-> << >>]
    ELSE LET ks == PyRange(0, HoursPerDay, hours_per_chunk)
         IN [err |-> "",
             bounds |-> [i \in 1 .. Len(ks) |->
                 << DayStart(date_obj) + SecondsPerHour * ks[i],
                    DayStart(date_obj) + SecondsPerHour * (ks[i] + hours_per_chunk) >>]]

(***************************************************************************)
(* parse_retry_after_from_exception and the is_429 test.                   *)
(***************************************************************************)
parse_retry_after_from_exception(exc_msg) == exc_msg.retry
is_429(msg) == msg.rate

(***************************************************************************)
(* polite_sleep(seconds): time.sleep(seconds + random.random()*JITTER_MAX). *)
(* The duration slept, for the jitter j drawn.                             *)
(***************************************************************************)
polite_sleep(seconds, j) == seconds + j

mainVars == << CHUNK_HOURS, MAX_RETRIES, day, mseed, dayplot, chunks, k, s_all,
               report, skippable >>
asmVars == << s_tr, s_in, apc >>
plotVars == << dpc, mseed_files, fi, removed >>

\* The class under which the history records an answer to a normal fetch.
Outcome(r) ==
    IF r.cls = "error"
    THEN (IF is_429(r.msg) THEN "ratelimit" ELSE "transient")
    ELSE r.cls

(***************************************************************************)
(* fetch_with_retries, lines 101-138.                                      *)
(***************************************************************************)
\* FetchEnter without the assignments of lines 103-104: attempt and backoff
\* are what they were before the call.
FetchEnter_KeepsRetryState ==
    /\ pc = "call"
    /\ nNormal' = 0 /\ nFallback' = 0 /\ seen' = {}
    /\ nSleeps' = 0
    /\ pc' = "try"
    /\ UNCHANGED << mainVars, asmVars, plotVars, st, attempt, backoff, wait_sec, resp,
                    slept, active >>

\* lines 103-104: attempt = 0; backoff = BACKOFF_INITIAL
FetchEnter ==
    /\ pc = "call"
    /\ attempt' = 0
    /\ backoff' = BACKOFF_INITIAL * Scale
    /\ nNormal' = 0 /\ nFallback' = 0 /\ seen' = {}
    /\ nSleeps' = 0
    /\ pc' = "try"
    /\ UNCHANGED << mainVars, asmVars, plotVars, st, wait_sec, resp, slept, active >>

\* line 108: return fetch_chunk_normal(...)
ReturnNormal(s) ==
    /\ st' = s
    /\ pc' = "ret"
    /\ UNCHANGED << attempt, backoff, wait_sec >>

\* line 110: except InternalMSEEDError: on to the fallback of line 113
OnCorrupt ==
    /\ pc' = "fallback"
    /\ UNCHANGED << st, attempt, backoff, wait_sec >>

\* OnError giving up one failure too early (attempt >= MAX_RETRIES).
OnError_GivesUpEarly(msg) ==
    LET a == attempt + 1
        hint == IF is_429(msg) THEN parse_retry_after_from_exception(msg) ELSE NoHint
    IN /\ attempt' = a
       /\ IF a >= MAX_RETRIES
          THEN /\ st' = EmptyStream
               /\ pc' = "ret"
               /\ UNCHANGED << backoff, wait_sec >>
          ELSE /\ IF hint = NoHint
                  THEN /\ wait_sec' = Min(backoff, BACKOFF_MAX * Scale)
                       /\ backoff' = Min(IF is_429(msg) THEN backoff * 2
                                                        ELSE (backoff * 3) \div 2,
                                         BACKOFF_MAX * Scale)
                  ELSE /\ wait_sec' = hint * Scale
                       /\ UNCHANGED backoff
               /\ pc' = "sleep"
               /\ UNCHANGED st

\* OnError reading the hint of every error message, rate limit or not
\* (wait_sec = parse_retry_after_from_exception(msg)).
OnError_HintOfAnyError(msg) ==
    LET a == attempt + 1
        hint == parse_retry_after_from_exception(msg)
    IN /\ attempt' = a
       /\ IF a > MAX_RETRIES
          THEN /\ st' = EmptyStream
               /\ pc' = "ret"
               /\ UNCHANGED << backoff, wait_sec >>
          ELSE /\ IF hint = NoHint
                  THEN /\ wait_sec' = Min(backoff, BACKOFF_MAX * Scale)
                       /\ backoff' = Min(IF is_429(msg) THEN backoff * 2
                                                        ELSE (backoff * 3) \div 2,
                                         BACKOFF_MAX * Scale)
                  ELSE /\ wait_sec' = hint * Scale
                       /\ UNCHANGED backoff
               /\ pc' = "sleep"
               /\ UNCHANGED st

\* OnError without the test of lines 128-130: the call never gives up.
OnError_NeverGivesUp(msg) ==
    LET a == attempt + 1
        hint == IF is_429(msg) THEN parse_retry_after_from_exception(msg) ELSE NoHint
    IN /\ attempt' = a
       /\ IF hint = NoHint
          THEN /\ wait_sec' = Min(backoff, BACKOFF_MAX * Scale)
               /\ backoff' = Min(IF is_429(msg) THEN backoff * 2
                                                ELSE (backoff * 3) \div 2,
                                 BACKOFF_MAX * Scale)
          ELSE /\ wait_sec' = hint * Scale
               /\ UNCHANGED backoff
       /\ pc' = "sleep"
       /\ UNCHANGED st

\* lines 123-138: except Exception
OnError(msg) ==
    LET a == attempt + 1
        hint == IF is_429(msg) THEN parse_retry_after_from_exception(msg) ELSE NoHint
    IN /\ attempt' = a
       /\ IF a > MAX_RETRIES
          THEN /\ st' = EmptyStream
               /\ pc' = "ret"
               /\ UNCHANGED << backoff, wait_sec >>
          ELSE /\ IF hint = NoHint
                  THEN /\ wait_sec' = Min(backoff, BACKOFF_MAX * Scale)
                       /\ backoff' = Min(IF is_429(msg) THEN backoff * 2
                                                        ELSE (backoff * 3) \div 2,
                                         BACKOFF_MAX * Scale)
                  ELSE /\ wait_sec' = hint * Scale
                       /\ UNCHANGED backoff
               /\ pc' = "sleep"
               /\ UNCHANGED st

\* lines 107-138: one pass of the while loop up to the sleep: the normal
\* fetch and the handler of what it raised.
FetchNormal(r) ==
    /\ pc = "try"
    /\ nNormal' = nNormal + 1
    /\ resp' = r
    /\ seen' = seen \cup {Outcome(r)}
    /\ slept' = 0
    /\ active' = active \cup {day}
    /\ CASE r.cls = "ok" -> ReturnNormal(r.stream)
         [] r.cls = "corrupt" -> OnCorrupt
         [] r.cls = "error" -> OnError(r.msg)
    /\ UNCHANGED << mainVars, asmVars, plotVars, nFallback, nSleeps >>

\* lines 114-118: the fallback returned st
FallbackReturned(s) ==
    /\ st' = s
    /\ pc' = "ret"

\* FallbackFailed going round the while loop again instead of returning.
FallbackFailed_Retries ==
    /\ pc' = "try"
    /\ UNCHANGED st

\* FallbackFailed without the except clause: the error leaves the function.
FallbackFailed_Propagates ==
    /\ pc' = "raised"
    /\ UNCHANGED st

\* lines 119-121: except Exception as e2: return Stream()
FallbackFailed ==
    /\ st' = EmptyStream
    /\ pc' = "ret"

\* lines 112-121: fetch_chunk_fallback_ignore_errors and its handler
FetchFallback(r) ==
    /\ pc = "fallback"
    /\ nFallback' = nFallback + 1
    /\ resp' = r
    /\ seen' = seen \cup {IF r.cls = "ok" THEN "fb_ok" ELSE "fb_fail"}
    /\ slept' = 0
    /\ active' = active \cup {day}
    /\ IF r.cls = "ok" THEN FallbackReturned(r.stream) ELSE FallbackFailed
    /\ UNCHANGED << mainVars, asmVars, plotVars, attempt, backoff, wait_sec, nNormal,
                    nSleeps >>

\* line 138: polite_sleep(wait_sec), then the loop tries again
BackoffSleep(j) ==
    /\ pc = "sleep"
    /\ slept' = slept + polite_sleep(wait_sec, j)
    /\ nSleeps' = nSleeps + 1
    /\ active' = active \cup {day}
    /\ pc' = "try"
    /\ UNCHANGED << mainVars, asmVars, plotVars, st, attempt, backoff, wait_sec,
                    nNormal, nFallback, seen, resp >>

(***************************************************************************)
(* main, lines 141-206.                                                    *)
(***************************************************************************)
fetchVars == << st, attempt, backoff, wait_sec, nNormal, nFallback, nSleeps,
               seen, resp >>

\* "continue" and the end of the loop body: on to the next day of daterange.
NextDay ==
    /\ day' = day + 1
    /\ pc' = "loop"

\* The position after chunk i of the for loop of line 176.
AfterChunk(cs, i) == IF i <= Len(cs) THEN "pace" ELSE "collected"

\* line 152 (daterange, lines 50-55) and lines 154-162: the day's file names
DayLoop ==
    /\ pc = "loop"
    /\ IF day < NumDays
       THEN /\ pc' = "gate_dayplot"
            /\ skippable' = IF mseed[day] # "none" \/ dayplot[day]
                            THEN skippable \cup {day} ELSE skippable
       ELSE /\ pc' = "done"
            /\ UNCHANGED skippable
    /\ UNCHANGED << CHUNK_HOURS, MAX_RETRIES, day, mseed, dayplot, chunks, k, s_all,
                    report, fetchVars, slept, active, asmVars, plotVars >>

\* lines 165-167: if dayplot_path.exists(): continue
GateDayplot ==
    /\ pc = "gate_dayplot"
    /\ IF dayplot[day]
       THEN /\ report' = [report EXCEPT ![day] = "SKIP"]
            /\ NextDay
       ELSE /\ pc' = "gate_mseed"
            /\ UNCHANGED << report, day >>
    /\ UNCHANGED << CHUNK_HOURS, MAX_RETRIES, mseed, dayplot, chunks, k, s_all,
                    skippable, fetchVars, slept, active, asmVars, plotVars >>

\* GateMseed without the test of the daily file: only the dayplot gates.
GateMseed_NoTest ==
    /\ pc = "gate_mseed"
    /\ pc' = "plan"
    /\ UNCHANGED << CHUNK_HOURS, MAX_RETRIES, day, mseed, dayplot, chunks, k, s_all,
                    report, skippable, fetchVars, slept, active, asmVars, plotVars >>

\* lines 168-170: if mseed_path.exists(): continue
GateMseed ==
    /\ pc = "gate_mseed"
    /\ IF mseed[day] # "none"
       THEN /\ report' = [report EXCEPT ![day] = "SKIP"]
            /\ NextDay
       ELSE /\ pc' = "plan"
            /\ UNCHANGED << report, day >>
    /\ UNCHANGED << CHUNK_HOURS, MAX_RETRIES, mseed, dayplot, chunks, k, s_all,
                    skippable, fetchVars, slept, active, asmVars, plotVars >>

\* lines 172-174: the [FETCH] line (24 // CHUNK_HOURS), s_all = Stream(),
\* chunks = chunk_bounds_for_day(day, CHUNK_HOURS).  An error raised here is
\* caught nowhere and ends main.
Plan ==
    /\ pc = "plan"
    /\ LET planned == chunk_bounds_for_day(day, CHUNK_HOURS)
       IN IF planned.err # ""
          THEN /\ pc' = "abort"
               /\ UNCHANGED << chunks, k, s_all >>
          ELSE /\ chunks' = planned.bounds
               /\ k' = 1
               /\ s_all' = {}
               /\ pc' = AfterChunk(planned.bounds, 1)
    /\ UNCHANGED << CHUNK_HOURS, MAX_RETRIES, day, mseed, dayplot, report,
                    skippable, fetchVars, slept, active, asmVars, plotVars >>

\* line 177: polite_sleep(REQUEST_PAUSE_SECONDS), then the call of line 178
Pace(j) ==
    /\ pc = "pace"
    /\ slept' = slept + polite_sleep(REQUEST_PAUSE_SECONDS * Scale, j)
    /\ active' = active \cup {day}
    /\ pc' = "call"
    /\ UNCHANGED << mainVars, fetchVars, asmVars, plotVars >>

\* The locals of fetch_with_retries are gone once it has returned (0 stands
\* for a local that does not exist), and the history of the call ends with
\* it, but for the last answer of the provider.
FrameDropped ==
    /\ attempt' = 0
    /\ backoff' = 0
    /\ wait_sec' = 0
    /\ nNormal' = 0 /\ nFallback' = 0 /\ seen' = {}
    /\ nSleeps' = 0
    /\ UNCHANGED resp

\* Collect leaving the loop of the chunks at the first empty stream.
Collect_StopsOnEmpty ==
    /\ pc = "ret"
    /\ s_all' = IF len(st) > 0 THEN s_all \cup {st} ELSE s_all
    /\ st' = EmptyStream
    /\ FrameDropped
    /\ k' = k + 1
    /\ pc' = IF len(st) > 0 THEN AfterChunk(chunks, k + 1) ELSE "collected"
    /\ UNCHANGED << CHUNK_HOURS, MAX_RETRIES, day, mseed, dayplot, chunks, report,
                    skippable, slept, active, asmVars, plotVars >>

\* Collect writing what it has to the day's file after every chunk.
Collect_WritesAsItGoes ==
    /\ pc = "ret"
    /\ s_all' = IF len(st) > 0 THEN s_all \cup {st} ELSE s_all
    /\ st' = EmptyStream
    /\ FrameDropped
    /\ k' = k + 1
    /\ pc' = AfterChunk(chunks, k + 1)
    /\ mseed' = IF len(st) > 0 THEN [mseed EXCEPT ![day] = "run"] ELSE mseed
    /\ UNCHANGED << CHUNK_HOURS, MAX_RETRIES, day, dayplot, chunks, report,
                    skippable, slept, active, asmVars, plotVars >>

\* lines 178-182: st = fetch_with_retries(...); s_all += st when non-empty.
\* st is not read again before line 178 assigns it anew.
Collect ==
    /\ pc = "ret"
    /\ s_all' = IF len(st) > 0 THEN s_all \cup {st} ELSE s_all
    /\ st' = EmptyStream
    /\ FrameDropped
    /\ k' = k + 1
    /\ pc' = AfterChunk(chunks, k + 1)
    /\ UNCHANGED << CHUNK_HOURS, MAX_RETRIES, day, mseed, dayplot, chunks, report,
                    skippable, slept, active, asmVars, plotVars >>

\* lines 184-186: if len(s_all) == 0: [NONE], continue
CheckCollected ==
    /\ pc = "collected"
    /\ IF s_all = {}
       THEN /\ report' = [report EXCEPT ![day] = "NONE"]
            /\ NextDay
       ELSE /\ pc' = "assemble"
            /\ UNCHANGED << report, day >>
    /\ UNCHANGED << CHUNK_HOURS, MAX_RETRIES, mseed, dayplot, chunks, k, s_all,
                    skippable, fetchVars, slept, active, asmVars, plotVars >>

\* line 196: s_all.select(network, station, location, channel) keeps the
\* traces of the configured identity.
select(s) == s \cap {"cfg", "cfgr"}

\* lines 191-194: Stream.merge checks the traces before it merges them, for
\* every method, and raises on traces of one identity with differing sampling
\* rates; the merge(method=0) of the except clause raises as merge(method=1)
\* did, outside any try.
merge_raises(s) == {"cfg", "cfgr"} \subseteq s

\* Assemble without the test of lines 198-200: the record is handed to the
\* write even when select left nothing.
Assemble_NoEmptyTest ==
    /\ pc = "assemble"
    /\ IF merge_raises(s_all)
       THEN /\ pc' = "abort"
            /\ UNCHANGED << s_all, report, day >>
       ELSE /\ s_all' = select(s_all)
            /\ pc' = "write"
            /\ UNCHANGED << report, day >>
    /\ UNCHANGED << CHUNK_HOURS, MAX_RETRIES, mseed, dayplot, chunks, k,
                    skippable, fetchVars, slept, active, asmVars, plotVars >>

\* lines 188-200: merge, trim, select; [NONE] and continue when nothing is left
Assemble ==
    /\ pc = "assemble"
    /\ IF merge_raises(s_all)
       THEN /\ pc' = "abort"
            /\ UNCHANGED << s_all, report, day >>
       ELSE /\ s_all' = select(s_all)
            /\ IF select(s_all) = {}
               THEN /\ report' = [report EXCEPT ![day] = "NONE"]
                    /\ NextDay
               ELSE /\ pc' = "write"
                    /\ UNCHANGED << report, day >>
    /\ UNCHANGED << CHUNK_HOURS, MAX_RETRIES, mseed, dayplot, chunks, k,
                    skippable, fetchVars, slept, active, asmVars, plotVars >>

\* line 203: s_all.write(mseed_path) succeeded; the file is this run's record
WriteOk ==
    /\ mseed' = [mseed EXCEPT ![day] = "run"]
    /\ report' = [report EXCEPT ![day] = "OK"]
    /\ NextDay

\* WriteFailed without the except clause: the write error ends main.
WriteFailed_Aborts(partial) ==
    /\ mseed' = IF partial THEN [mseed EXCEPT ![day] = "partial"] ELSE mseed
    /\ pc' = "abort"
    /\ UNCHANGED << report, day >>

\* lines 205-206: except Exception: [FAIL].  The file is as it was, or holds
\* the part that was written before the error (partial).
WriteFailed(partial) ==
    /\ mseed' = IF partial THEN [mseed EXCEPT ![day] = "partial"] ELSE mseed
    /\ report' = [report EXCEPT ![day] = "FAIL"]
    /\ NextDay

\* lines 202-206: the write of the day's record
Write(ok, partial) ==
    /\ pc = "write"
    /\ active' = active \cup {day}
    /\ IF ok THEN WriteOk ELSE WriteFailed(partial)
    /\ UNCHANGED << CHUNK_HOURS, MAX_RETRIES, dayplot, chunks, k, s_all,
                    skippable, fetchVars, slept, asmVars, plotVars >>

(***************************************************************************)
(* The file system is shared: while main works on a day, another process   *)
(* may create that day's file in shake_data.  (A file created for a later  *)
(* day is a file that exists when that day's iteration begins, as in Init.)*)
(***************************************************************************)
ExternalCreate ==
    /\ pc \notin {"loop", "done", "abort"}
    /\ mseed[day] = "none"
    /\ mseed' = [mseed EXCEPT ![day] = "ext"]
    /\ UNCHANGED << CHUNK_HOURS, MAX_RETRIES, pc, day, dayplot, chunks, k, s_all,
                    report, skippable, fetchVars, slept, active, asmVars, plotVars >>

(***************************************************************************)
(* The run of main over the day range.                                     *)
(***************************************************************************)
Init ==
    /\ CHUNK_HOURS \in ChunkHourChoices
    /\ MAX_RETRIES = MainRetries
    /\ pc = "loop"
    /\ day = 0
    /\ mseed \in [Days -> {"none", "ext"}]
    /\ dayplot \in [Days -> BOOLEAN]
    /\ chunks = << >>
    /\ k = 1
    /\ s_all = {}
    /\ st = EmptyStream
    /\ attempt = 0
    /\ backoff = 0
    /\ wait_sec = 0
    /\ nNormal = 0
    /\ nFallback = 0
    /\ nSleeps = 0
    /\ seen = {}
    /\ resp = NoResp
    /\ slept = 0
    /\ report = [d \in Days |-> ""]
    /\ skippable = {}
    /\ active = {}
    /\ s_tr = << >>
    /\ s_in = << >>
    /\ apc = "idle"
    /\ dpc = "idle"
    /\ mseed_files = << >>
    /\ fi = 1
    /\ removed = {}

Next ==
    \/ DayLoop
    \/ GateDayplot
    \/ GateMseed
    \/ Plan
    \/ \E j \in JitterChoices : Pace(j)
    \/ FetchEnter
    \/ \E r \in NormalResps : FetchNormal(r)
    \/ \E r \in FallbackResps : FetchFallback(r)
    \/ \E j \in JitterChoices : BackoffSleep(j)
    \/ Collect
    \/ CheckCollected
    \/ Assemble
    \/ \E ok \in BOOLEAN, partial \in BOOLEAN : Write(ok, partial)
    \/ ExternalCreate

Spec == Init /\ [][Next]_vars

(***************************************************************************)
(* One call of fetch_with_retries, for every MAX_RETRIES.                  *)
(***************************************************************************)
InitFetch ==
    /\ CHUNK_HOURS = DefaultChunkHours
    /\ MAX_RETRIES \in 0 .. MaxRetriesRange
    /\ pc = "call"
    /\ day = 0
    /\ mseed = [d \in Days |-> "none"]
    /\ dayplot = [d \in Days |-> FALSE]
    /\ chunks = chunk_bounds_for_day(0, DefaultChunkHours).bounds
    /\ k = 1
    /\ s_all = {}
    /\ st = EmptyStream
    /\ attempt = 0
    /\ backoff = 0
    /\ wait_sec = 0
    /\ nNormal = 0
    /\ nFallback = 0
    /\ nSleeps = 0
    /\ seen = {}
    /\ resp = NoResp
    /\ slept = 0
    /\ report = [d \in Days |-> ""]
    /\ skippable = {}
    /\ active = {}
    /\ s_tr = << >>
    /\ s_in = << >>
    /\ apc = "idle"
    /\ dpc = "idle"
    /\ mseed_files = << >>
    /\ fi = 1
    /\ removed = {}

NextFetch ==
    \/ FetchEnter
    \/ \E r \in NormalResps : FetchNormal(r)
    \/ \E r \in FallbackResps : FetchFallback(r)
    \/ \E j \in JitterChoices : BackoffSleep(j)

SpecFetch == InitFetch /\ [][NextFetch]_vars

\* The interpreter runs the call as long as it has a statement to run: every
\* provider request returns or raises (the client has a timeout) and every
\* sleep ends.
SpecFetchLive == InitFetch /\ [][NextFetch]_vars /\ WF_vars(NextFetch)

(***************************************************************************)
(* The planner alone (lines 172-174 with chunk_bounds_for_day), for every  *)
(* integer chunk width of PlannerHours and every day of the range.         *)
(***************************************************************************)
InitPlan ==
    /\ CHUNK_HOURS \in PlannerHours
    /\ MAX_RETRIES = 0
    /\ pc = "plan"
    /\ day \in Days
    /\ mseed = [d \in Days |-> "none"]
    /\ dayplot = [d \in Days |-> FALSE]
    /\ chunks = << >>
    /\ k = 1
    /\ s_all = {}
    /\ st = EmptyStream
    /\ attempt = 0
    /\ backoff = 0
    /\ wait_sec = 0
    /\ nNormal = 0
    /\ nFallback = 0
    /\ nSleeps = 0
    /\ seen = {}
    /\ resp = NoResp
    /\ slept = 0
    /\ report = [d \in Days |-> ""]
    /\ skippable = {}
    /\ active = {}
    /\ s_tr = << >>
    /\ s_in = << >>
    /\ apc = "idle"
    /\ dpc = "idle"
    /\ mseed_files = << >>
    /\ fi = 1
    /\ removed = {}

NextPlan == Plan

SpecPlan == InitPlan /\ [][NextPlan]_vars

(***************************************************************************)
(* The assembly of a day's record, lines 188-196, sample by sample.        *)
(* Instants are sample numbers counted from day_start (one sample per      *)
(* sampling interval), so day_end = day_start + 24 h is instant            *)
(* SamplesPerDay.  A trace is its identity, the instant of its first       *)
(* sample and its samples; all traces have the same sampling rate.         *)
(* merge, trim and select follow obspy's Stream.merge (method=1,           *)
(* fill_value=0), Stream.trim (pad=True, fill_value=0, nearest_sample) and  *)
(* Stream.select.                                                          *)
(***************************************************************************)
FillValue == 0
TraceLens == {1, 2}
SampleValues == {1, 2}
TraceChoices ==
    [id : {"cfg", "oth"},
     start : (0 - 1) .. SamplesPerDay,
     data : {[i \in 1 .. n |-> v] : n \in TraceLens, v \in SampleValues}]
TraceLists ==
    UNION {[1 .. n -> TraceChoices] : n \in 1 .. MaxTraces}

EndOf(tr) == tr.start + Len(tr.data) - 1
Fill(n) == [i \in 1 .. n |-> FillValue]

\* list.sort(key = (starttime, endtime)) of the traces of one id: stable.
KeyLess(a, b) ==
    a.start < b.start \/ (a.start = b.start /\ EndOf(a) < EndOf(b))

RECURSIVE InsertByTime(_, _)
InsertByTime(t, sorted) ==
    IF sorted = << >> THEN << t >>
    ELSE IF KeyLess(Head(sorted), t)
         THEN << Head(sorted) >> \o InsertByTime(t, Tail(sorted))
         ELSE << t >> \o sorted

RECURSIVE SortByTime(_)
SortByTime(ts) ==
    IF ts = << >> THEN << >>
    ELSE InsertByTime(Head(ts), SortByTime(Tail(ts)))

\* Trace.__add__(trace, method=1, fill_value=0, interpolation_samples=0):
\* an overlap keeps the samples of the trace that starts later, a contained
\* trace is discarded, a gap is filled with fill_value.
TraceAdd(self, trace) ==
    LET lt == IF self.start <= trace.start THEN self ELSE trace
        rt == IF self.start <= trace.start THEN trace ELSE self
        delta == (rt.start - EndOf(lt)) - 1
        delta_endtime == EndOf(lt) - EndOf(rt)
        data == IF delta < 0 /\ delta_endtime < 0
                THEN SubSeq(lt.data, 1, Len(lt.data) + delta) \o rt.data
                ELSE IF delta < 0
                THEN lt.data
                ELSE IF delta = 0
                THEN lt.data \o rt.data
                ELSE lt.data \o Fill(delta) \o rt.data
    IN [id |-> lt.id, start |-> lt.start, data |-> data]

RECURSIVE AddAll(_, _)
AddAll(cur_trace, trace_list) ==
    IF trace_list = << >> THEN cur_trace
    ELSE AddAll(TraceAdd(cur_trace, Head(trace_list)), Tail(trace_list))

\* Stream.merge: the traces of each id, sorted by time, added up into one.
MergeId(ts, id) ==
    LET mine == SortByTime(SelectSeq(ts, LAMBDA t : t.id = id))
    IN IF mine = << >> THEN << >> ELSE << AddAll(Head(mine), Tail(mine)) >>

Stream_merge(ts) == MergeId(ts, "cfg") \o MergeId(ts, "oth")

\* Trace._ltrim(starttime, pad=True, fill_value=0)
LTrim(tr, starttime) ==
    LET delta == starttime - tr.start
    IN IF delta = 0 THEN tr
       ELSE IF delta < 0
       THEN [tr EXCEPT !.start = starttime, !.data = Fill(0 - delta) \o tr.data]
       ELSE [tr EXCEPT !.start = starttime,
                       !.data = SubSeq(tr.data, delta + 1, Len(tr.data))]

\* Trace._rtrim(endtime, pad=True, fill_value=0): the sample at endtime is
\* kept (delta = round((endtime - starttime) * rate) - npts + 1).
RTrim(tr, endtime) ==
    LET delta == (endtime - tr.start) - Len(tr.data) + 1
    IN IF delta = 0 THEN tr
       ELSE IF delta > 0
       THEN [tr EXCEPT !.data = tr.data \o Fill(delta)]
       ELSE IF endtime < tr.start
       THEN [tr EXCEPT !.data = << >>]
       ELSE [tr EXCEPT !.data = SubSeq(tr.data, 1, Len(tr.data) + delta)]

\* Stream.trim(day_start, day_end, pad=True, fill_value=0); traces left
\* without samples are dropped.
Stream_trim(ts, starttime, endtime) ==
    SelectSeq([i \in 1 .. Len(ts) |-> RTrim(LTrim(ts[i], starttime), endtime)],
              LAMBDA t : Len(t.data) > 0)

\* Stream.select(network, station, location, channel)
Stream_select(ts) == SelectSeq(ts, LAMBDA t : t.id = "cfg")

\* lines 191-194: s_all.merge(method=1, fill_value=0)
MergeStep ==
    /\ apc = "merge"
    /\ s_tr' = Stream_merge(s_tr)
    /\ apc' = "trim"
    /\ UNCHANGED << mainVars, fetchVars, pc, slept, active, s_in, plotVars >>

\* line 195: s_all.trim(day_start, day_end, pad=True, fill_value=0)
TrimStep ==
    /\ apc = "trim"
    /\ s_tr' = Stream_trim(s_tr, 0, SamplesPerDay)
    /\ apc' = "select"
    /\ UNCHANGED << mainVars, fetchVars, pc, slept, active, s_in, plotVars >>

\* line 196: s_all = s_all.select(...)
SelectStep ==
    /\ apc = "select"
    /\ s_tr' = Stream_select(s_tr)
    /\ apc' = "done"
    /\ UNCHANGED << mainVars, fetchVars, pc, slept, active, s_in, plotVars >>

InitAsm ==
    /\ CHUNK_HOURS = DefaultChunkHours
    /\ MAX_RETRIES = 0
    /\ pc = "assemble"
    /\ day = 0
    /\ mseed = [d \in Days |-> "none"]
    /\ dayplot = [d \in Days |-> FALSE]
    /\ chunks = chunk_bounds_for_day(0, DefaultChunkHours).bounds
    /\ k = Len(chunks) + 1
    /\ s_all = {}
    /\ st = EmptyStream
    /\ attempt = 0
    /\ backoff = 0
    /\ wait_sec = 0
    /\ nNormal = 0
    /\ nFallback = 0
    /\ nSleeps = 0
    /\ seen = {}
    /\ resp = NoResp
    /\ slept = 0
    /\ report = [d \in Days |-> ""]
    /\ skippable = {}
    /\ active = {}
    /\ s_tr \in TraceLists
    /\ s_in = s_tr
    /\ apc = "merge"
    /\ dpc = "idle"
    /\ mseed_files = << >>
    /\ fi = 1
    /\ removed = {}

NextAsm ==
    \/ MergeStep
    \/ TrimStep
    \/ SelectStep

SpecAsm == InitAsm /\ [][NextAsm]_vars

(***************************************************************************)
(* src/DsaveDayplots.py: main() plots every MiniSEED file of shake_data    *)
(* into dayplots and then empties shake_data.  It is run between the runs  *)
(* of AfetchData, on the files these runs and other processes left: a      *)
(* day's file is this run's record ("run"), what a failed write left of it *)
(* ("partial") or a file of another origin ("ext").                        *)
(***************************************************************************)
FileKinds == {"ext", "run", "partial"}

\* sorted([...]): the days that have a file, in the order of their names.
RECURSIVE SortedDays(_)
SortedDays(ds) ==
    IF ds = {} THEN << >>
    ELSE LET first == CHOOSE d \in ds : \A e \in ds : d <= e
         IN << first >> \o SortedDays(ds \ {first})

\* process_file, lines 29-73: the lines it can return for a file of that
\* kind.  Anything read, merge, filter or plot raises gives [ERROR] (a
\* truncated or foreign file that does not decode, a plot that cannot be
\* drawn or saved); a file without the EHZ channel gives [WARN], which the
\* files AfetchData wrote never are (line 196 there); a readable file gives
\* [SKIP] when its dayplot exists and [OK], with the dayplot saved, when not.
process_file(kind, plotted) ==
    {IF plotted THEN "SKIP" ELSE "OK", "ERROR"}
        \cup (IF kind = "ext" THEN {"WARN"} ELSE {})

\* lines 93-106: collect the .mseed files; return when there is none
PlotsMain ==
    /\ dpc \in {"idle", "done"}
    /\ LET files == SortedDays({d \in Days : mseed[d] # "none"})
       IN IF files = << >>
          THEN /\ dpc' = "done"
               /\ UNCHANGED << mseed_files, fi >>
          ELSE /\ dpc' = "process"
               /\ mseed_files' = files
               /\ fi' = 1
    /\ UNCHANGED << mainVars, fetchVars, asmVars, pc, slept, active, removed >>

\* lines 109-110: print(process_file(file_path)) for the next file
ProcessFile(line) ==
    /\ dpc = "process"
    /\ LET d == mseed_files[fi]
       IN /\ line \in process_file(mseed[d], dayplot[d])
          /\ dayplot' = IF line = "OK" THEN [dayplot EXCEPT ![d] = TRUE] ELSE dayplot
    /\ fi' = fi + 1
    /\ dpc' = IF fi < Len(mseed_files) THEN "process" ELSE "clear"
    /\ UNCHANGED << CHUNK_HOURS, MAX_RETRIES, day, mseed, chunks, k, s_all, report,
                    skippable, fetchVars, asmVars, pc, slept, active,
                    mseed_files, removed >>

\* line 115, clear_shake_data (lines 76-89): every item of shake_data is
\* removed, but those whose unlink raised (failed).
ClearShakeData(failed) ==
    /\ dpc = "clear"
    /\ failed \subseteq {d \in Days : mseed[d] # "none"}
    /\ LET gone == {d \in Days : mseed[d] # "none" /\ d \notin failed}
       IN /\ mseed' = [d \in Days |-> IF d \in gone THEN "none" ELSE mseed[d]]
          /\ removed' = removed \cup gone
    /\ dpc' = "done"
    /\ UNCHANGED << CHUNK_HOURS, MAX_RETRIES, day, dayplot, chunks, k, s_all, report,
                    skippable, fetchVars, asmVars, pc, slept, active,
                    mseed_files, fi >>

InitPlots ==
    /\ CHUNK_HOURS = DefaultChunkHours
    /\ MAX_RETRIES = 0
    /\ pc = "done"
    /\ day = NumDays
    /\ mseed \in [Days -> FileKinds \cup {"none"}]
    /\ dayplot \in [Days -> BOOLEAN]
    /\ chunks = << >>
    /\ k = 1
    /\ s_all = {}
    /\ st = EmptyStream
    /\ attempt = 0
    /\ backoff = 0
    /\ wait_sec = 0
    /\ nNormal = 0
    /\ nFallback = 0
    /\ nSleeps = 0
    /\ seen = {}
    /\ resp = NoResp
    /\ slept = 0
    /\ report = [d \in Days |-> ""]
    /\ skippable = {}
    /\ active = {}
    /\ s_tr = << >>
    /\ s_in = << >>
    /\ apc = "idle"
    /\ dpc = "idle"
    /\ mseed_files = << >>
    /\ fi = 1
    /\ removed = {}

NextPlots ==
    \/ PlotsMain
    \/ \E line \in {"OK", "SKIP", "WARN", "ERROR"} : ProcessFile(line)
    \/ \E failed \in SUBSET Days : ClearShakeData(failed)

SpecPlots == InitPlots /\ [][NextPlots]_vars

(***************************************************************************)
(* Properties of fetch_with_retries, checked under SpecFetch.              *)
(***************************************************************************)
Retryable == {"ratelimit", "transient"}

\* C1: when every normal fetch of the call failed with a rate-limit or a
\* transient error (any mix), the call returns only after exactly
\* MAX_RETRIES + 1 normal fetches, without any fallback fetch, and it
\* returns the empty stream; before that it never exceeds that number.
C1_ExhaustedRetries ==
    (seen \subseteq Retryable) =>
        /\ nFallback = 0
        /\ nNormal <= MAX_RETRIES + 1
        /\ pc \in {"call", "try", "sleep", "ret"}
        /\ (pc = "ret" => nNormal = MAX_RETRIES + 1 /\ st = EmptyStream)

C1_Witness ==
    /\ pc = "ret"
    /\ seen = Retryable
    /\ MAX_RETRIES = 3
    /\ nNormal = 4
    /\ nFallback = 0
    /\ st = EmptyStream

\* C2: the fallback fetch is issued at most once per call, only right after
\* a normal fetch that raised the corrupt-record error, and it ends the call:
\* once it was issued the call has returned, with the fallback's stream when
\* it succeeded and the empty stream when it failed.
C2_FallbackOnceTerminal ==
    /\ nFallback <= 1
    /\ (pc = "fallback" => resp = CorruptResp /\ nFallback = 0 /\ nNormal >= 1)
    /\ (nFallback = 1 =>
            /\ pc = "ret"
            /\ "corrupt" \in seen
            /\ nNormal = attempt + 1
            /\ (resp.cls = "ok" => st = resp.stream)
            /\ (resp.cls # "ok" => st = EmptyStream))

C2_Witness ==
    /\ nFallback = 1
    /\ attempt >= 2
    /\ seen = Retryable \cup {"corrupt", "fb_ok"}
    /\ pc = "ret"
    /\ st = "cfg"

\* C3: whatever the provider answers, a call that has ended has returned a
\* stream; no error of the normal or of the fallback fetch leaves the call.
C3_AlwaysReturnsStream ==
    /\ pc \in {"call", "try", "fallback", "sleep", "ret"}
    /\ (~ ENABLED NextFetch => pc = "ret" /\ st \in StreamKinds)
    /\ (pc = "ret" /\ resp.cls # "ok" => st = EmptyStream)

C3_Witness ==
    /\ pc = "ret"
    /\ nFallback = 1
    /\ resp.cls = "error"
    /\ st = EmptyStream

\* C14: every wait slept before a retry, jitter included, is at least 0 and
\* at most BACKOFF_MAX + JITTER_MAX, whether it was computed from the backoff
\* or taken from the hint of the provider.
C14_WaitBounded ==
    [][(pc = "sleep" /\ pc' = "try") =>
          /\ slept' - slept >= 0
          /\ slept' - slept <= BACKOFF_MAX * Scale + JITTER_MAX]_vars

\* C15: whenever the n-th failure of a call (n = attempt) is retried without
\* a hint, the wait before jitter is
\* min(BACKOFF_INITIAL * growth^(n-1), BACKOFF_MAX), growth being 2 when the
\* n-th failure is a rate limit and 1.5 when it is any other error, whatever
\* the earlier failures of the call were.
C15_BackoffClosedForm ==
    (pc = "sleep" /\ ~ (is_429(resp.msg) /\ resp.msg.retry # NoHint)) =>
        LET n == attempt
            grown == IF is_429(resp.msg)
                     THEN BACKOFF_INITIAL * Scale * 2 ^ (n - 1)
                     ELSE (BACKOFF_INITIAL * Scale * 3 ^ (n - 1)) \div 2 ^ (n - 1)
        IN wait_sec = Min(grown, BACKOFF_MAX * Scale)

\* C16: a failure that is retried (attempt 1 .. MAX_RETRIES) and is a rate
\* limit whose message holds a numeric hint H waits exactly H before jitter,
\* whatever the backoff is, and the backoff is left as it was; the hint in
\* the message of any other error is not used: that failure waits
\* min(backoff, BACKOFF_MAX).
C16_HintTakenAsIs ==
    [][(pc = "try" /\ pc' = "sleep") =>
          /\ attempt' \in 1 .. MAX_RETRIES
          /\ resp'.cls = "error"
          /\ IF resp'.msg.rate /\ resp'.msg.retry # NoHint
             THEN wait_sec' = resp'.msg.retry * Scale /\ backoff' = backoff
             ELSE wait_sec' = Min(backoff, BACKOFF_MAX * Scale)]_vars

\* The third and last retry of a call waits the 700 s of the hint while the
\* backoff has grown past its initial value.
C16_Witness ==
    /\ pc = "sleep"
    /\ MAX_RETRIES = 3
    /\ attempt = 3
    /\ resp = [cls |-> "error", msg |-> [rate |-> TRUE, retry |-> 700]]
    /\ wait_sec = 700 * Scale
    /\ backoff > BACKOFF_INITIAL * Scale

\* C17: every call of fetch_with_retries ends, and it makes at most
\* MAX_RETRIES + 1 normal fetches, at most one fallback fetch and at most
\* MAX_RETRIES backoff sleeps.  (The chunks of a day and the days of the
\* range are walked by for loops over finite sequences, so the days and the
\* run end when the calls do.)
C17_CallTerminates ==
    /\ [](nNormal <= MAX_RETRIES + 1 /\ nFallback <= 1 /\ nSleeps <= MAX_RETRIES)
    /\ <>(pc = "ret")

\* A call that ended with every one of the three numbers at its maximum.
C17_Witness ==
    /\ pc = "ret"
    /\ MAX_RETRIES = 3
    /\ nNormal = 4
    /\ nSleeps = 3
    /\ nFallback = 1

(***************************************************************************)
(* Properties of main, checked under Spec.                                 *)
(***************************************************************************)
\* C4: a day that had its daily file or its dayplot when its iteration began
\* is skipped: the run never sleeps, fetches or writes for it, reports
\* nothing but SKIP for it and leaves no file of its own for it.
C4_GateSkips ==
    \A d \in skippable :
        /\ d \notin active
        /\ report[d] \in {"", "SKIP"}
        /\ mseed[d] \notin {"run", "partial"}
        /\ (day = d => pc \in {"gate_dayplot", "gate_mseed"})

C4_Witness ==
    /\ pc = "done"
    /\ 0 \in active
    /\ report[0] = "OK"
    /\ 1 \in skippable
    /\ mseed[1] = "ext"
    /\ ~ dayplot[1]
    /\ report[1] = "SKIP"

\* C5: the write step never overwrites a daily file that exists when the
\* write happens.
C5_WriteOnce ==
    [][(pc = "write" /\ mseed[day] # "none") => mseed'[day] = mseed[day]]_vars

\* C7: every provider request (normal fetch, retry, fallback) comes after a
\* sleep of at least REQUEST_PAUSE_SECONDS since the previous request.
C7_EveryRequestPaced ==
    [][(nNormal' = nNormal + 1 \/ nFallback' = nFallback + 1)
          => slept >= REQUEST_PAUSE_SECONDS * Scale]_vars

\* C9: with a chunk width that does not divide the day into a positive number
\* of chunks, main never gets past the planning of a day: no chunk is paced
\* or fetched, no day is found without data, assembled or written.
C9_InvalidWidthAborts ==
    (CHUNK_HOURS \notin ValidWidths) =>
        /\ pc \in {"loop", "gate_dayplot", "gate_mseed", "plan", "abort", "done"}
        /\ \A d \in Days : report[d] \in {"", "SKIP"}
        /\ active = {}

\* C10: a failed write is reported for its day and main goes on to the next
\* day from the state a successful write would have left, but for the file
\* and the report of the day.
C10_WriteFailureContinues ==
    [][(pc = "write" /\ pc' # "write" /\ mseed'[day] # "run") =>
          /\ report'[day] = "FAIL"
          /\ pc' = "loop"
          /\ day' = day + 1
          /\ active' = active \cup {day}
          /\ \A d \in Days \ {day} : mseed'[d] = mseed[d] /\ report'[d] = report[d]
          /\ UNCHANGED << CHUNK_HOURS, MAX_RETRIES, dayplot, chunks, k, s_all,
                          skippable, fetchVars, slept, asmVars >>]_vars

C10_Witness ==
    /\ report[0] = "FAIL"
    /\ report[1] = "OK"
    /\ mseed[1] = "run"
    /\ pc = "done"

\* C11: no exception raised inside the processing of a day (planning, chunk
\* fetches, merge with its method=0 fallback, trim, select, write) leaves the
\* day's iteration, so main never ends by an uncaught exception.  Stated for
\* the chunk widths the planner accepts, with which planning raises nothing.
C11_DayFailureContained ==
    (CHUNK_HOURS \in ValidWidths) => pc # "abort"

C13_NoDataNoFile ==
    /\ [](pc \in {"assemble", "write"} => s_all # {})
    /\ [](pc = "write" => select(s_all) # {})
    /\ [](\A d \in Days :
             /\ (report[d] = "NONE" => mseed[d] \notin {"run", "partial"} /\ day > d)
             /\ (mseed[d] \in {"run", "partial"} => report[d] \in {"OK", "FAIL"}))
    /\ [][(pc' # pc /\ (\/ (pc = "collected" /\ s_all = {})
                        \/ (pc = "assemble" /\ ~ merge_raises(s_all)
                                /\ select(s_all) = {}))) =>
              /\ report' = [report EXCEPT ![day] = "NONE"]
              /\ mseed' = mseed
              /\ pc' = "loop"
              /\ day' = day + 1]_vars
    /\ [][(mseed' # mseed /\ mseed'[day] \in {"run", "partial"}) => pc = "write"]_vars

\* Day 0 ended with [NONE] although its last chunk had returned traces (of
\* another identity): nothing was left after select, and main is at day 1.
C13_Witness ==
    /\ report[0] = "NONE"
    /\ mseed[0] = "none"
    /\ resp = [cls |-> "ok", stream |-> "oth"]
    /\ pc = "loop"
    /\ day = 1

\* C18: from the start of a day's processing until the fetch of its last
\* chunk has ended and been collected, this run has neither created nor
\* modified the day's file: what was fetched so far is held in memory only.
C18_NoFileBeforeLastChunk ==
    (pc \in {"gate_dayplot", "gate_mseed", "plan", "pace", "call", "try",
             "fallback", "sleep", "ret"}) =>
        /\ mseed[day] \in {"none", "ext"}
        /\ report[day] = ""

\* The second chunk of a day is waiting to be retried while the data of the
\* first are held in s_all and the day has no file.
C18_Witness ==
    /\ pc = "sleep"
    /\ k = 2
    /\ s_all = {"cfg"}
    /\ mseed[day] = "none"

\* C19: the retry state belongs to one call: whatever the earlier chunks and
\* days went through, the fetch of a chunk starts with attempt = 0 and
\* backoff = BACKOFF_INITIAL, before its first request and with no sleep of
\* its own behind it.
C19_RetryStatePerChunk ==
    (pc = "try" /\ nNormal = 0) =>
        /\ attempt = 0
        /\ backoff = BACKOFF_INITIAL * Scale
        /\ nSleeps = 0
        /\ nFallback = 0

\* On the second day, the first chunk was given up with its retries used up
\* (the last answer of the provider is an error), and the second chunk starts.
C19_Witness ==
    /\ pc = "try"
    /\ nNormal = 0
    /\ day = 1
    /\ k = 2
    /\ resp.cls = "error"
    /\ attempt = 0
    /\ backoff = BACKOFF_INITIAL * Scale

(***************************************************************************)
(* Properties of the planner, checked under SpecPlan.                      *)
(***************************************************************************)
\* C8: for every width H of {1,2,3,4,6,8,12,24} and every day the planner
\* succeeds with exactly 24/H chunks (t0, t1), t0 < t1, in order, the first
\* starting at the day's start, the last ending 24 h later, each ending
\* where the next starts.
C8_ChunksCoverDay ==
    (CHUNK_HOURS \in ValidWidths /\ pc # "plan") =>
        /\ pc = "pace"
        /\ Len(chunks) = HoursPerDay \div CHUNK_HOURS
        /\ \A i \in 1 .. Len(chunks) : chunks[i][1] < chunks[i][2]
        /\ chunks[1][1] = DayStart(day)
        /\ chunks[Len(chunks)][2] = DayStart(day) + HoursPerDay * SecondsPerHour
        /\ \A i \in 1 .. (Len(chunks) - 1) : chunks[i][2] = chunks[i + 1][1]

C8_Witness ==
    /\ pc = "pace"
    /\ day = 1
    /\ CHUNK_HOURS = 8
    /\ chunks = << << 86400, 115200 >>, << 115200, 144000 >>, << 144000, 172800 >> >>

(***************************************************************************)
(* Properties of the assembly, checked under SpecAsm.                      *)
(***************************************************************************)
\* C6: the record left by merge / trim / select, when it is not empty, has
\* exactly 24 h * sampling rate samples, all of them in
\* [day_start, day_start + 24 h): none at or after day_start + 24 h.
C6_ExactDaySpan ==
    (apc = "done") =>
        \A i \in 1 .. Len(s_tr) :
            /\ Len(s_tr[i].data) = SamplesPerDay
            /\ s_tr[i].start >= 0
            /\ EndOf(s_tr[i]) < SamplesPerDay

\* C20: where several of the fetched traces of the configured identity hold a
\* sample for the same instant, the assembled record holds at that instant
\* the sample of the trace that was fetched first (never a later one, never
\* the fill value).
C20_FirstWriterWins ==
    (apc = "done") =>
        \A r \in 1 .. Len(s_tr) :
            \A i \in s_tr[r].start .. EndOf(s_tr[r]) :
                LET covering == {j \in 1 .. Len(s_in) :
                                    /\ s_in[j].id = s_tr[r].id
                                    /\ s_in[j].start <= i
                                    /\ i <= EndOf(s_in[j])}
                    first == CHOOSE j \in covering : \A j2 \in covering : j <= j2
                IN covering # {} =>
                       s_tr[r].data[i - s_tr[r].start + 1]
                           = s_in[first].data[i - s_in[first].start + 1]

(***************************************************************************)
(* Properties of DsaveDayplots, checked under SpecPlots.                   *)
(***************************************************************************)
\* C21: a day whose MiniSEED file DsaveDayplots removed from shake_data has
\* its dayplot, so that the day keeps an artifact for the gate of AfetchData
\* and is not fetched again.
C21_RemovedDayHasDayplot ==
    \A d \in removed : dayplot[d]

====
